---- MODULE Spec2Model ----
(***************************************************************************)
(* rainsoon_mcp.py: the check_for_rain tool.  An invocation resolves an IP *)
(* (given or discovered), geolocates it, fetches the next-hour             *)
(* precipitation probability and returns a flat record.  Every network     *)
(* call is a step of the invocation; what the network answers is chosen    *)
(* by the environment.                                                     *)
(***************************************************************************)
EXTENDS Integers, Sequences, FiniteSets, TLC

(* ---------------- bounds of the model ---------------- *)

\* number of invocations a threaded host runs at the same time
NumInvocations == 2
\* longest hourly "time" list the forecast API answers with
MaxTimes == 4

(* ---------------- Python values ---------------- *)

\* str.strip() removes these from both ends
Whitespace == {" ", "\n", "\t"}

RECURSIVE lstrip(_)
lstrip(s) ==
    IF Len(s) > 0 /\ SubSeq(s, 1, 1) \in Whitespace
    THEN lstrip(SubSeq(s, 2, Len(s)))
    ELSE s

RECURSIVE rstrip(_)
rstrip(s) ==
    IF Len(s) > 0 /\ SubSeq(s, Len(s), Len(s)) \in Whitespace
    THEN rstrip(SubSeq(s, 1, Len(s) - 1))
    ELSE s

strip(s) == rstrip(lstrip(s))

\* a or b, on strings
StrOr(a, b) == IF a = "" THEN b ELSE a

\* an exception object; str(e) is e.msg
Exc(type, msg) == [type |-> type, msg |-> msg]

\* the classes an exception of the given type is an instance of
Ancestors(type) ==
    CASE type \in {"ConnectionError", "Timeout", "HTTPError"} ->
             {type, "RequestException", "OSError", "Exception", "BaseException"}
      [] type = "RequestException" -> {type, "OSError", "Exception", "BaseException"}
      [] type = "requests.JSONDecodeError" ->
             {type, "InvalidJSONError", "RequestException", "OSError",
              "json.JSONDecodeError", "ValueError", "Exception", "BaseException"}
      [] type = "json.JSONDecodeError" -> {type, "ValueError", "Exception", "BaseException"}
      [] type \in {"RuntimeError", "TypeError", "AttributeError", "ValueError"} ->
             {type, "Exception", "BaseException"}
      [] OTHER -> {type, "BaseException"}

\* does "except cls" catch e
Catches(cls, e) == cls \in Ancestors(e.type)

Return(v) == [ok |-> TRUE, val |-> v]
Raise(e) == [ok |-> FALSE, exc |-> e]

\* JSON values of the forecast body
Absent == [t |-> "absent"]
Null == [t |-> "null"]
JInt(n) == [t |-> "int", v |-> n]
JFloat(whole, tenths) == [t |-> "float", whole |-> whole, tenths |-> tenths]
JList(l) == [t |-> "list", v |-> l]
JObject(probs, times) == [t |-> "object", precipitation_probability |-> probs, time |-> times]

\* dict.get(key, default): the default only when the key is absent
DictGet(field, default) == IF field.t = "absent" THEN default ELSE field

\* truth value of a JSON value
Truthy(j) ==
    CASE j.t = "list" -> Len(j.v) > 0
      [] j.t = "int" -> j.v # 0
      [] j.t = "float" -> j.whole # 0 \/ j.tenths # 0
      [] j.t = "object" -> TRUE
      [] OTHER -> FALSE

\* int(x): truncation of a float, TypeError on None
PyInt(j) ==
    CASE j.t = "int" -> Return(j.v)
      [] j.t = "float" -> Return(j.whole)
      [] OTHER -> Raise(Exc("TypeError", "int() argument must be a string, a bytes-like object or a real number, not 'NoneType'"))

\* seq[:n + 1]
SliceOneMore(l, n) == SubSeq(l, 1, IF Len(l) < n + 1 THEN Len(l) ELSE n + 1)

\* seq[:n]
Slice(l, n) == SubSeq(l, 1, IF Len(l) < n THEN Len(l) ELSE n)

(* ---------------- the components ---------------- *)

\* the "what is my IP" services, in the order they are asked
Endpoints == <<"https://api.ipify.org", "https://ipinfo.io/ip", "https://icanhazip.com">>

\* the class the loop of _get_public_ip swallows
EndpointHandler == "RequestException"

\* EndpointTry that takes the text as it comes, untrimmed
EndpointTryUntrimmed(resp) ==
    IF resp.kind = "raise"
    THEN IF Catches(EndpointHandler, resp.exc)
         THEN [found |-> FALSE, raised |-> FALSE]
         ELSE [found |-> FALSE, raised |-> TRUE, exc |-> resp.exc]
    ELSE IF resp.text # ""
         THEN [found |-> TRUE, ip |-> resp.text]
         ELSE [found |-> FALSE, raised |-> FALSE]

\* one trip round the loop of _get_public_ip: the answer resp of one
\* endpoint either ends the loop with an IP or lets it go on
EndpointTry(resp) ==
    IF resp.kind = "raise"
    THEN IF Catches(EndpointHandler, resp.exc)
         THEN [found |-> FALSE, raised |-> FALSE]
         ELSE [found |-> FALSE, raised |-> TRUE, exc |-> resp.exc]
    ELSE IF strip(resp.text) # ""
         THEN [found |-> TRUE, ip |-> strip(resp.text)]
         ELSE [found |-> FALSE, raised |-> FALSE]

\* what _get_public_ip raises after the last endpoint
DiscoveryFailed == Exc("RuntimeError", "Could not determine public IP from fallback services.")

\* _get_public_ip over the answers rs of the endpoints it asks, from
\* endpoint k on; used counts the answers it consumed
RECURSIVE GetPublicIpFrom(_, _)
GetPublicIpFrom(rs, k) ==
    IF k > Len(Endpoints) THEN [ok |-> FALSE, exc |-> DiscoveryFailed, used |-> k - 1]
    ELSE IF k > Len(rs) THEN [ok |-> FALSE, starved |-> TRUE, used |-> Len(rs)]
    ELSE LET t == EndpointTry(rs[k])
         IN IF t.found THEN [ok |-> TRUE, val |-> t.ip, used |-> k]
            ELSE IF t.raised THEN [ok |-> FALSE, exc |-> t.exc, used |-> k]
            ELSE GetPublicIpFrom(rs, k + 1)

_get_public_ip(rs) == GetPublicIpFrom(rs, 1)

\* the placeholder for a city the provider omits
DefaultCity == "your area"

\* geolocate that looks at the coordinates only, not at g.ok
geolocateIgnoresOk(target_ip, g) ==
    IF g.latlng = <<>>
    THEN Raise(Exc("RuntimeError", "Could not geolocate IP " \o target_ip \o "."))
    ELSE Return([lat |-> g.latlng[1], lng |-> g.latlng[2],
                 city |-> IF g.city # <<>> /\ g.city[1] # "" THEN g.city[1] ELSE DefaultCity])

\* geolocate that fails when the provider gives no city
geolocateRequiresCity(target_ip, g) ==
    IF ~g.ok \/ g.latlng = <<>> \/ g.city = <<>> \/ g.city[1] = ""
    THEN Raise(Exc("RuntimeError", "Could not geolocate IP " \o target_ip \o "."))
    ELSE Return([lat |-> g.latlng[1], lng |-> g.latlng[2], city |-> g.city[1]])

\* geolocate(target_ip), g being what geocoder.ip(target_ip) answers
geolocate(target_ip, g) ==
    IF ~g.ok \/ g.latlng = <<>>
    THEN Raise(Exc("RuntimeError", "Could not geolocate IP " \o target_ip \o "."))
    ELSE Return([lat |-> g.latlng[1], lng |-> g.latlng[2],
                 city |-> IF g.city # <<>> /\ g.city[1] # "" THEN g.city[1] ELSE DefaultCity])

\* Response.raise_for_status()
RaiseForStatus(status) ==
    IF status >= 400 /\ status < 500
    THEN Raise(Exc("HTTPError", ToString(status) \o " Client Error"))
    ELSE IF status >= 500 /\ status < 600
    THEN Raise(Exc("HTTPError", ToString(status) \o " Server Error"))
    ELSE Return(status)

\* how many timestamps the sample keeps
SampleLen == 3

MissingProbs == Exc("RuntimeError", "Weather data missing precipitation probabilities.")

NoneHasNoGet == Exc("AttributeError", "'NoneType' object has no attribute 'get'")

\* _fetch_precip_prob that takes a first probability of 0 for a missing one
FetchZeroIsMissing(lat, lng, w) ==
    IF w.kind = "raise" THEN Raise(w.exc)
    ELSE IF ~RaiseForStatus(w.status).ok THEN Raise(RaiseForStatus(w.status).exc)
    ELSE IF w.kind = "badjson" THEN Raise(w.exc)
    ELSE LET hourly == DictGet(w.data.hourly, JObject(Absent, Absent))
         IN IF hourly.t # "object" THEN Raise(NoneHasNoGet)
            ELSE LET probs == DictGet(hourly.precipitation_probability, JList(<<>>))
                     times == DictGet(hourly.time, JList(<<>>))
                 IN IF ~Truthy(probs) \/ ~Truthy(probs.v[1]) THEN Raise(MissingProbs)
                    ELSE IF ~PyInt(probs.v[1]).ok THEN Raise(PyInt(probs.v[1]).exc)
                    ELSE Return([prob |-> PyInt(probs.v[1]).val,
                                 times |-> IF Truthy(times) THEN Slice(times.v, SampleLen) ELSE <<>>])

\* _fetch_precip_prob(lat, lng), w being what the forecast request does
_fetch_precip_prob(lat, lng, w) ==
    IF w.kind = "raise" THEN Raise(w.exc)
    ELSE IF ~RaiseForStatus(w.status).ok THEN Raise(RaiseForStatus(w.status).exc)
    ELSE IF w.kind = "badjson" THEN Raise(w.exc)
    ELSE LET hourly == DictGet(w.data.hourly, JObject(Absent, Absent))
         IN IF hourly.t # "object" THEN Raise(NoneHasNoGet)
            ELSE LET probs == DictGet(hourly.precipitation_probability, JList(<<>>))
                     times == DictGet(hourly.time, JList(<<>>))
                 IN IF ~Truthy(probs) THEN Raise(MissingProbs)
                    ELSE IF ~PyInt(probs.v[1]).ok THEN Raise(PyInt(probs.v[1]).exc)
                    ELSE Return([prob |-> PyInt(probs.v[1]).val,
                                 times |-> IF Truthy(times) THEN Slice(times.v, SampleLen) ELSE <<>>])

\* Message with "Yes" at or above the threshold
MessageAtOrAbove(p, threshold, city) ==
    (IF p >= threshold THEN "Yes" ELSE "No") \o ", " \o ToString(p)
        \o "% chance of rain soon in " \o city \o "."

\* the f-string of the message field
Message(p, threshold, city) ==
    (IF p > threshold THEN "Yes" ELSE "No") \o ", " \o ToString(p)
        \o "% chance of rain soon in " \o city \o "."

\* SuccessRecord with rain decided by "at or above the threshold"
SuccessRecordAtOrAbove(ip, loc, threshold, wx) ==
    LET base == [ip |-> ip, location |-> loc.city, lat |-> loc.lat, lng |-> loc.lng,
                 rain |-> (wx.prob >= threshold), precipitation_chance |-> wx.prob,
                 threshold |-> threshold, message |-> Message(wx.prob, threshold, loc.city)]
    IN IF wx.times # <<>> THEN ("hour_sample" :> wx.times) @@ base ELSE base

\* SuccessRecord with the hour sample always in the record
SuccessRecordAlwaysSample(ip, loc, threshold, wx) ==
    [ip |-> ip, location |-> loc.city, lat |-> loc.lat, lng |-> loc.lng,
     rain |-> (wx.prob > threshold), precipitation_chance |-> wx.prob,
     threshold |-> threshold, message |-> Message(wx.prob, threshold, loc.city),
     hour_sample |-> wx.times]

\* SuccessRecord with an empty error field next to the success fields
SuccessRecordWithError(ip, loc, threshold, wx) ==
    LET base == [ip |-> ip, location |-> loc.city, lat |-> loc.lat, lng |-> loc.lng,
                 rain |-> (wx.prob > threshold), precipitation_chance |-> wx.prob,
                 threshold |-> threshold, message |-> Message(wx.prob, threshold, loc.city),
                 error |-> ""]
    IN IF wx.times # <<>> THEN ("hour_sample" :> wx.times) @@ base ELSE base

\* the record built on a successful weather fetch
SuccessRecord(ip, loc, threshold, wx) ==
    LET base == [ip |-> ip, location |-> loc.city, lat |-> loc.lat, lng |-> loc.lng,
                 rain |-> (wx.prob > threshold), precipitation_chance |-> wx.prob,
                 threshold |-> threshold, message |-> Message(wx.prob, threshold, loc.city)]
    IN IF wx.times # <<>> THEN ("hour_sample" :> wx.times) @@ base ELSE base

ErrorRecord(msg) == [error |-> msg]

\* a weather handler that catches RuntimeError only
WeatherHandlerNarrow == "RuntimeError"

\* the except clauses of check_for_rain: the class each one names
DiscoveryHandler == "Exception"
GeolocateHandler == "Exception"
FallbackHandler == "Exception"

\* a transport handler that catches every Exception
TransportHandlerBroad == "Exception"

TransportHandler == "RequestException"

WeatherHandler == "Exception"

\* step 3 of check_for_rain: the weather lookup; the record it returns, or
\* the exception that no except clause catches
WeatherLookup(ip, loc, threshold, w) ==
    LET wx == _fetch_precip_prob(loc.lat, loc.lng, w)
    IN IF wx.ok THEN Return(SuccessRecord(ip, loc, threshold, wx.val))
       ELSE IF Catches(TransportHandler, wx.exc)
            THEN Return(ErrorRecord("Failed to fetch weather data: " \o wx.exc.msg))
            ELSE IF Catches(WeatherHandler, wx.exc)
            THEN Return(ErrorRecord(wx.exc.msg))
            ELSE Raise(wx.exc)

\* DiscoveryError without the prefix
DiscoveryErrorBare(e) ==
    IF Catches(DiscoveryHandler, e)
    THEN Return(ErrorRecord(e.msg))
    ELSE Raise(e)

\* step 1 when _get_public_ip() raises e
DiscoveryError(e) ==
    IF Catches(DiscoveryHandler, e)
    THEN Return(ErrorRecord("Could not determine public IP: " \o e.msg))
    ELSE Raise(e)

\* step 2 when geolocate(ip) raises first_err after auto-detection
GeolocateError(first_err) == Return(ErrorRecord(first_err.msg))

\* FallbackError with the two messages in the other order
FallbackErrorSwapped(first_err, second_err) ==
    IF Catches(FallbackHandler, second_err)
    THEN Return(ErrorRecord(second_err.msg \o "; fallback to public IP failed: " \o first_err.msg))
    ELSE Raise(second_err)

\* step 2 when the fallback raises second_err
FallbackError(first_err, second_err) ==
    IF Catches(FallbackHandler, second_err)
    THEN Return(ErrorRecord(first_err.msg \o "; fallback to public IP failed: " \o second_err.msg))
    ELSE Raise(second_err)

(* ---------------- what the environment can do ---------------- *)

\* the threshold of a call that passes none
DefaultThreshold == 20

IpArgs == {"", " \n", "5.6.7.8", " 5.6.7.8\t"}
Thresholds == {0, DefaultThreshold}

NetworkDown == Exc("ConnectionError", "connection refused")

Raised(e) == [kind |-> "raise", exc |-> e]
Text(s) == [kind |-> "text", text |-> s]

\* what requests.get(url, timeout=5) can do at an endpoint
EndpointResponses == {Raised(NetworkDown), Text(""), Text("\n"), Text("9.9.9.9\n")}

\* what geocoder.ip(target_ip) can answer; no city is <<>>
GeoResponses ==
    [ok : BOOLEAN, latlng : {<<>>, <<10, 20>>, <<30, 40>>}, city : {<<>>, <<"">>, <<"Testville">>}]

Hour(k) == "2025-01-01T0" \o ToString(k - 1) \o ":00"
Hours(n) == [k \in 1..n |-> Hour(k)]

ProbsFields ==
    {Absent, Null, JList(<<>>), JList(<<Null>>), JList(<<JInt(0)>>), JList(<<JInt(20)>>),
     JList(<<JInt(21), JInt(0)>>), JList(<<JFloat(20, 5)>>),
     JList(<<JInt(150)>>), JList(<<JInt(-1)>>)}
TimesFields == {Absent, Null} \cup {JList(Hours(n)) : n \in 0..MaxTimes}

Response(status, hourly) == [kind |-> "response", status |-> status, data |-> [hourly |-> hourly]]

\* a response whose body r.json() cannot parse; which class it raises
\* depends on the requests release
BadJson(status, type) ==
    [kind |-> "badjson", status |-> status, exc |-> Exc(type, "Expecting value: line 1 column 1 (char 0)")]

\* what the forecast request can do
WeatherResponses ==
    {Raised(NetworkDown), Response(500, Absent), Response(404, Absent),
     Response(200, Absent), Response(200, Null),
     Response(300, JObject(JList(<<JInt(21)>>), JList(Hours(1)))),
     BadJson(200, "requests.JSONDecodeError"), BadJson(200, "json.JSONDecodeError")}
    \cup {Response(200, JObject(p, t)) : p \in ProbsFields, t \in TimesFields}

(* ---------------- the invocations ---------------- *)

Invocations == 1..NumInvocations

VARIABLES
    pc,      \* where each invocation is
    args,    \* the arguments each invocation was called with
    frame,   \* the local variables of check_for_rain, one frame a call
    result,  \* the record each invocation returned
    calls,   \* the network calls each invocation made, with their answers
    overlapped  \* history: did the invocation make a call while another was in flight

vars == <<pc, args, frame, result, calls, overlapped>>

\* one frame for every invocation, as if the locals were module globals
FrameShared(i) == 1

\* the frame that holds the locals of invocation i
Frame(i) == i

NoResult == [pending |-> TRUE]

Init ==
    /\ pc = [i \in Invocations |-> "idle"]
    /\ args = [i \in Invocations |-> [ip |-> "", threshold |-> DefaultThreshold]]
    /\ frame = [f \in Invocations |->
                  [ip |-> "", threshold |-> DefaultThreshold, tried_autodetect |-> FALSE,
                   url |-> 1, auto_ip |-> "", first_err |-> <<>>, loc |-> <<>>]]
    /\ result = [i \in Invocations |-> NoResult]
    /\ calls = [i \in Invocations |-> <<>>]
    /\ overlapped = [i \in Invocations |-> FALSE]

InFlight(i) == pc[i] \notin {"idle", "done", "raised"}

\* invocation i makes a network call
Log(i, entry) ==
    /\ calls' = [calls EXCEPT ![i] = Append(@, entry)]
    /\ overlapped' = [overlapped EXCEPT
                        ![i] = @ \/ \E j \in Invocations \ {i} : InFlight(j)]

\* what the caller gets: the returned record, or the exception
ResultOf(out) == IF out.ok THEN out.val ELSE [uncaught |-> out.exc]

\* the invocation ends: it returns a record, or an exception leaves it
Finish(i, out) ==
    /\ result' = [result EXCEPT ![i] = ResultOf(out)]
    /\ pc' = [pc EXCEPT ![i] = IF out.ok THEN "done" ELSE "raised"]

Goto(i, label) ==
    /\ pc' = [pc EXCEPT ![i] = label]
    /\ UNCHANGED result

\* Call that uses ip as given, without trimming it
CallNoStrip(i, ip, threshold) ==
    /\ pc[i] = "idle"
    /\ args' = [args EXCEPT ![i] = [ip |-> ip, threshold |-> threshold]]
    /\ LET ip0 == StrOr(ip, "")
       IN /\ frame' = [frame EXCEPT ![Frame(i)].ip = ip0,
                                    ![Frame(i)].threshold = threshold,
                                    ![Frame(i)].tried_autodetect = (ip0 = ""),
                                    ![Frame(i)].url = 1]
          /\ Goto(i, IF ip0 = "" THEN "discover" ELSE "geolocate")
    /\ UNCHANGED <<calls, overlapped>>

\* Call that never sets tried_autodetect
CallForgetsAutodetect(i, ip, threshold) ==
    /\ pc[i] = "idle"
    /\ args' = [args EXCEPT ![i] = [ip |-> ip, threshold |-> threshold]]
    /\ LET ip0 == strip(StrOr(ip, ""))
       IN /\ frame' = [frame EXCEPT ![Frame(i)].ip = ip0,
                                    ![Frame(i)].threshold = threshold,
                                    ![Frame(i)].tried_autodetect = FALSE,
                                    ![Frame(i)].url = 1]
          /\ Goto(i, IF ip0 = "" THEN "discover" ELSE "geolocate")
    /\ UNCHANGED <<calls, overlapped>>

\* check_for_rain(ip, threshold) is called: normalise ip, up to the first network call
Call(i, ip, threshold) ==
    /\ pc[i] = "idle"
    /\ args' = [args EXCEPT ![i] = [ip |-> ip, threshold |-> threshold]]
    /\ LET ip0 == strip(StrOr(ip, ""))
       IN /\ frame' = [frame EXCEPT ![Frame(i)].ip = ip0,
                                    ![Frame(i)].threshold = threshold,
                                    ![Frame(i)].tried_autodetect = (ip0 = ""),
                                    ![Frame(i)].url = 1]
          /\ Goto(i, IF ip0 = "" THEN "discover" ELSE "geolocate")
    /\ UNCHANGED <<calls, overlapped>>

\* step 1: _get_public_ip() asks its next endpoint
PublicIpRequest(i, resp) ==
    /\ pc[i] = "discover"
    /\ LET f == frame[Frame(i)]
           t == EndpointTry(resp)
       IN /\ Log(i, [fn |-> "requests.get", url |-> Endpoints[f.url], resp |-> resp])
          /\ IF t.found
             THEN /\ frame' = [frame EXCEPT ![Frame(i)].ip = t.ip]
                  /\ Goto(i, "geolocate")
             ELSE IF t.raised
             THEN /\ Finish(i, DiscoveryError(t.exc))
                  /\ UNCHANGED frame
             ELSE IF f.url < Len(Endpoints)
             THEN /\ frame' = [frame EXCEPT ![Frame(i)].url = f.url + 1]
                  /\ Goto(i, "discover")
             ELSE /\ Finish(i, DiscoveryError(DiscoveryFailed))
                  /\ UNCHANGED frame
    /\ UNCHANGED args

\* Geolocate that falls back whether or not the ip was auto-detected
GeolocateAlwaysFallsBack(i, g) ==
    /\ pc[i] = "geolocate"
    /\ LET f == frame[Frame(i)]
           r == geolocate(f.ip, g)
       IN /\ Log(i, [fn |-> "geocoder.ip", ip |-> f.ip, resp |-> g])
          /\ IF r.ok
             THEN /\ frame' = [frame EXCEPT ![Frame(i)].loc = <<r.val>>]
                  /\ Goto(i, "weather")
             ELSE IF ~Catches(GeolocateHandler, r.exc)
             THEN /\ Finish(i, r)
                  /\ UNCHANGED frame
             ELSE /\ frame' = [frame EXCEPT ![Frame(i)].first_err = <<r.exc>>,
                                            ![Frame(i)].url = 1]
                  /\ Goto(i, "fb_discover")
    /\ UNCHANGED args

\* step 2: the first geolocate(ip)
Geolocate(i, g) ==
    /\ pc[i] = "geolocate"
    /\ LET f == frame[Frame(i)]
           r == geolocate(f.ip, g)
       IN /\ Log(i, [fn |-> "geocoder.ip", ip |-> f.ip, resp |-> g])
          /\ IF r.ok
             THEN /\ frame' = [frame EXCEPT ![Frame(i)].loc = <<r.val>>]
                  /\ Goto(i, "weather")
             ELSE IF ~Catches(GeolocateHandler, r.exc)
             THEN /\ Finish(i, r)
                  /\ UNCHANGED frame
             ELSE IF ~f.tried_autodetect
             THEN /\ frame' = [frame EXCEPT ![Frame(i)].first_err = <<r.exc>>,
                                            ![Frame(i)].url = 1]
                  /\ Goto(i, "fb_discover")
             ELSE /\ frame' = [frame EXCEPT ![Frame(i)].first_err = <<r.exc>>]
                  /\ Finish(i, GeolocateError(r.exc))
    /\ UNCHANGED args

\* step 2, fallback: _get_public_ip() asks its next endpoint
FallbackPublicIpRequest(i, resp) ==
    /\ pc[i] = "fb_discover"
    /\ LET f == frame[Frame(i)]
           t == EndpointTry(resp)
       IN /\ Log(i, [fn |-> "requests.get", url |-> Endpoints[f.url], resp |-> resp])
          /\ IF t.found
             THEN /\ frame' = [frame EXCEPT ![Frame(i)].auto_ip = t.ip]
                  /\ Goto(i, "fb_geolocate")
             ELSE IF t.raised
             THEN /\ Finish(i, FallbackError(f.first_err[1], t.exc))
                  /\ UNCHANGED frame
             ELSE IF f.url < Len(Endpoints)
             THEN /\ frame' = [frame EXCEPT ![Frame(i)].url = f.url + 1]
                  /\ Goto(i, "fb_discover")
             ELSE /\ Finish(i, FallbackError(f.first_err[1], DiscoveryFailed))
                  /\ UNCHANGED frame
    /\ UNCHANGED args

\* FallbackGeolocate that keeps the caller's ip
FallbackGeolocateKeepsIp(i, g) ==
    /\ pc[i] = "fb_geolocate"
    /\ LET f == frame[Frame(i)]
           r == geolocate(f.auto_ip, g)
       IN /\ Log(i, [fn |-> "geocoder.ip", ip |-> f.auto_ip, resp |-> g])
          /\ IF r.ok
             THEN /\ frame' = [frame EXCEPT ![Frame(i)].loc = <<r.val>>,
                                            ![Frame(i)].tried_autodetect = TRUE]
                  /\ Goto(i, "weather")
             ELSE /\ Finish(i, FallbackError(f.first_err[1], r.exc))
                  /\ UNCHANGED frame
    /\ UNCHANGED args

\* step 2, fallback: geolocate(auto_ip)
FallbackGeolocate(i, g) ==
    /\ pc[i] = "fb_geolocate"
    /\ LET f == frame[Frame(i)]
           r == geolocate(f.auto_ip, g)
       IN /\ Log(i, [fn |-> "geocoder.ip", ip |-> f.auto_ip, resp |-> g])
          /\ IF r.ok
             THEN /\ frame' = [frame EXCEPT ![Frame(i)].loc = <<r.val>>,
                                            ![Frame(i)].ip = f.auto_ip,
                                            ![Frame(i)].tried_autodetect = TRUE]
                  /\ Goto(i, "weather")
             ELSE /\ Finish(i, FallbackError(f.first_err[1], r.exc))
                  /\ UNCHANGED frame
    /\ UNCHANGED args

\* Weather that passes the coordinates in the other order
WeatherSwapsCoordinates(i, w) ==
    /\ pc[i] = "weather"
    /\ LET f == frame[Frame(i)]
       IN /\ Log(i, [fn |-> "_fetch_precip_prob", lat |-> f.loc[1].lng, lng |-> f.loc[1].lat,
                     resp |-> w])
          /\ Finish(i, WeatherLookup(f.ip, f.loc[1], f.threshold, w))
    /\ UNCHANGED <<args, frame>>

\* step 3: the weather lookup and the return
Weather(i, w) ==
    /\ pc[i] = "weather"
    /\ LET f == frame[Frame(i)]
       IN /\ Log(i, [fn |-> "_fetch_precip_prob", lat |-> f.loc[1].lat, lng |-> f.loc[1].lng,
                     resp |-> w])
          /\ Finish(i, WeatherLookup(f.ip, f.loc[1], f.threshold, w))
    /\ UNCHANGED <<args, frame>>

\* one invocation in a host that runs one call at a time
Next ==
    \/ \E ip \in IpArgs, threshold \in Thresholds : Call(1, ip, threshold)
    \/ \E resp \in EndpointResponses : PublicIpRequest(1, resp)
    \/ \E g \in GeoResponses : Geolocate(1, g)
    \/ \E resp \in EndpointResponses : FallbackPublicIpRequest(1, resp)
    \/ \E g \in GeoResponses : FallbackGeolocate(1, g)
    \/ \E w \in WeatherResponses : Weather(1, w)

Spec == Init /\ [][Next]_vars

\* the network calls of the running invocation: each blocks until it
\* returns or fails (timeout=5, timeout=10), then the next statement runs
Steps ==
    \/ \E resp \in EndpointResponses : PublicIpRequest(1, resp)
    \/ \E g \in GeoResponses : Geolocate(1, g)
    \/ \E resp \in EndpointResponses : FallbackPublicIpRequest(1, resp)
    \/ \E g \in GeoResponses : FallbackGeolocate(1, g)
    \/ \E w \in WeatherResponses : Weather(1, w)

\* one invocation whose network calls all return or fail
SpecFair == Spec /\ WF_vars(Steps)

(* ---------------- invocations in a threaded host ---------------- *)

ConcIpArgs == {"", "5.6.7.8"}
ConcEndpointResponses == {Raised(NetworkDown), Text("9.9.9.9\n")}
ConcGeoResponses ==
    {[ok |-> FALSE, latlng |-> <<>>, city |-> <<>>],
     [ok |-> TRUE, latlng |-> <<10, 20>>, city |-> <<"Testville">>]}
ConcWeatherResponses ==
    {Raised(NetworkDown), Response(200, JObject(JList(<<JInt(21)>>), JList(Hours(MaxTimes))))}

\* any invocation takes its next step
NextConc ==
    \E i \in Invocations :
        \/ \E ip \in ConcIpArgs : Call(i, ip, DefaultThreshold)
        \/ \E resp \in ConcEndpointResponses : PublicIpRequest(i, resp)
        \/ \E g \in ConcGeoResponses : Geolocate(i, g)
        \/ \E resp \in ConcEndpointResponses : FallbackPublicIpRequest(i, resp)
        \/ \E g \in ConcGeoResponses : FallbackGeolocate(i, g)
        \/ \E w \in ConcWeatherResponses : Weather(i, w)

SpecConc == Init /\ [][NextConc]_vars

(* ---------------- check_for_rain run alone ---------------- *)

\* the answers of the requests.get calls a log starts with
LeadingGets(log) ==
    LET n == CHOOSE m \in 0..Len(log) :
                 /\ \A k \in 1..m : log[k].fn = "requests.get"
                 /\ m = Len(log) \/ log[m + 1].fn # "requests.get"
    IN [k \in 1..n |-> log[k].resp]

Drop(log, n) == SubSeq(log, n + 1, Len(log))

\* the log does not hold the answer the run asks for next
Starved == [starved |-> TRUE]

Expects(log, fn) == log # <<>> /\ log[1].fn = fn

\* check_for_rain(ip, threshold) from call to return, uninterrupted, the
\* answers to its network calls read off log in the order it makes them
check_for_rain(ip, threshold, log) ==
    LET ip0 == strip(StrOr(ip, ""))
        tried0 == (ip0 = "")
        d1 == IF tried0 THEN _get_public_ip(LeadingGets(log))
              ELSE [ok |-> TRUE, val |-> ip0, used |-> 0]
        lookup(ipx, loc, rest) ==
            IF ~Expects(rest, "_fetch_precip_prob") THEN Starved
            ELSE ResultOf(WeatherLookup(ipx, loc, threshold, rest[1].resp))
    IN IF ~d1.ok
       THEN IF "starved" \in DOMAIN d1 THEN Starved ELSE ResultOf(DiscoveryError(d1.exc))
       ELSE LET log1 == Drop(log, d1.used)
            IN IF ~Expects(log1, "geocoder.ip") THEN Starved
               ELSE LET g1 == geolocate(d1.val, log1[1].resp)
                        log2 == Drop(log1, 1)
                    IN IF g1.ok THEN lookup(d1.val, g1.val, log2)
                       ELSE IF ~Catches(GeolocateHandler, g1.exc) THEN ResultOf(g1)
                       ELSE IF tried0 THEN ResultOf(GeolocateError(g1.exc))
                       ELSE LET d2 == _get_public_ip(LeadingGets(log2))
                            IN IF ~d2.ok
                               THEN IF "starved" \in DOMAIN d2 THEN Starved
                                    ELSE ResultOf(FallbackError(g1.exc, d2.exc))
                               ELSE LET log3 == Drop(log2, d2.used)
                                    IN IF ~Expects(log3, "geocoder.ip") THEN Starved
                                       ELSE LET g2 == geolocate(d2.val, log3[1].resp)
                                            IN IF g2.ok
                                               THEN lookup(d2.val, g2.val, Drop(log3, 1))
                                               ELSE ResultOf(FallbackError(g1.exc, g2.exc))

(* ---------------- what the properties speak of ---------------- *)

Done(i) == pc[i] = "done"
Ended(i) == pc[i] \in {"done", "raised"}
Success(i) == Done(i) /\ "error" \notin DOMAIN result[i]
Failure(i) == Done(i) /\ "error" \in DOMAIN result[i]

CallsTo(i, fn) == SelectSeq(calls[i], LAMBDA c : c.fn = fn)
LastCall(i) == calls[i][Len(calls[i])]

Blank(s) == strip(s) = ""
EndpointFails(resp) == resp.kind = "raise" \/ strip(resp.text) = ""
GeoFails(g) == ~g.ok \/ g.latlng = <<>>

\* the calls start with a discovery that no endpoint answered
DiscoveryFailedFirst(i) ==
    /\ Len(calls[i]) >= Len(Endpoints)
    /\ \A k \in 1..Len(Endpoints) :
          calls[i][k].fn = "requests.get" /\ EndpointFails(calls[i][k].resp)

\* what the weather fetch of a successful invocation returned
Fetched(i) == _fetch_precip_prob(LastCall(i).lat, LastCall(i).lng, LastCall(i).resp).val

\* the caller gave an ip and its geolocation, the first call, failed
SuppliedIpFailed(i) ==
    /\ Ended(i)
    /\ ~Blank(args[i].ip)
    /\ calls[i][1].fn = "geocoder.ip"
    /\ GeoFails(calls[i][1].resp)

FirstGeoMsg(i) == geolocate(calls[i][1].ip, calls[i][1].resp).exc.msg

(* ---------------- properties of one invocation ---------------- *)

\* C1: in a success record rain is true exactly when the fetched probability
\* is strictly above the caller's threshold; equal or below gives false.
C1_RainIffAboveThreshold ==
    \A i \in Invocations :
        Success(i) => result[i].rain = (Fetched(i).prob > args[i].threshold)

C1_Witness ==
    \E i \in Invocations :
        Success(i) /\ Fetched(i).prob = args[i].threshold /\ result[i].rain = FALSE

\* C2: a blank ip whose discovery fails gives exactly the error record
\* "Could not determine public IP: <cause>", with no geolocation and no
\* weather call made.
C2_BlankIpDiscoveryFails ==
    \A i \in Invocations :
        (Ended(i) /\ Blank(args[i].ip) /\ DiscoveryFailedFirst(i)) =>
            /\ Done(i)
            /\ result[i] = [error |-> "Could not determine public IP: " \o DiscoveryFailed.msg]
            /\ CallsTo(i, "geocoder.ip") = <<>>
            /\ CallsTo(i, "_fetch_precip_prob") = <<>>

C2_Witness ==
    \E i \in Invocations :
        Done(i) /\ Blank(args[i].ip) /\ args[i].ip # "" /\ DiscoveryFailedFirst(i)
            /\ "error" \in DOMAIN result[i]

\* C3: a supplied ip that fails geolocation gets exactly one fallback, one
\* discovery and, if that finds an IP, one geolocation of the found IP; if
\* either fails the result is the error record "<first geolocation
\* failure>; fallback to public IP failed: <second failure>" and the
\* weather fetcher is not called.
C3_OneFallbackThenBothMessages ==
    \A i \in Invocations :
        SuppliedIpFailed(i) =>
            LET gets == CallsTo(i, "requests.get")
                geos == CallsTo(i, "geocoder.ip")
                found == ~EndpointFails(gets[Len(gets)].resp)
            IN /\ Len(gets) \in 1..Len(Endpoints)
               /\ \A k \in 1..Len(gets) : gets[k].url = Endpoints[k] /\ calls[i][k + 1] = gets[k]
               /\ \A k \in 1..(Len(gets) - 1) : EndpointFails(gets[k].resp)
               /\ ~found => /\ Len(gets) = Len(Endpoints)
                            /\ Len(geos) = 1
                            /\ result[i] = [error |-> FirstGeoMsg(i)
                                   \o "; fallback to public IP failed: " \o DiscoveryFailed.msg]
                            /\ CallsTo(i, "_fetch_precip_prob") = <<>>
               /\ found => /\ Len(geos) = 2
                           /\ geos[2].ip = strip(gets[Len(gets)].resp.text)
                           /\ calls[i][Len(gets) + 2] = geos[2]
               /\ (found /\ GeoFails(geos[2].resp)) =>
                      /\ result[i] = [error |-> FirstGeoMsg(i)
                             \o "; fallback to public IP failed: "
                             \o geolocate(geos[2].ip, geos[2].resp).exc.msg]
                      /\ CallsTo(i, "_fetch_precip_prob") = <<>>

C3_Witness ==
    \E i \in Invocations :
        /\ SuppliedIpFailed(i)
        /\ Len(CallsTo(i, "geocoder.ip")) = 2
        /\ GeoFails(CallsTo(i, "geocoder.ip")[2].resp)
        /\ result[i] = [error |-> "Could not geolocate IP 5.6.7.8.; fallback to public IP failed: Could not geolocate IP 9.9.9.9."]

\* C4: an auto-detected ip (blank input, discovery succeeded) that fails
\* geolocation gets no second discovery and no second geolocation, and the
\* error is the geolocation failure's message and nothing else.
C4_AutoDetectedNoFallback ==
    \A i \in Invocations :
        (Ended(i) /\ Blank(args[i].ip) /\ CallsTo(i, "geocoder.ip") # <<>>
            /\ GeoFails(CallsTo(i, "geocoder.ip")[1].resp)) =>
            LET gets == CallsTo(i, "requests.get")
                geos == CallsTo(i, "geocoder.ip")
            IN /\ Len(geos) = 1
               /\ Len(gets) \in 1..Len(Endpoints)
               /\ \A k \in 1..Len(gets) : gets[k].url = Endpoints[k]
               /\ calls[i] = gets \o geos
               /\ geos[1].ip = strip(gets[Len(gets)].resp.text)
               /\ result[i] = [error |-> "Could not geolocate IP " \o geos[1].ip \o "."]

C4_Witness ==
    \E i \in Invocations :
        /\ Done(i) /\ Blank(args[i].ip)
        /\ Len(CallsTo(i, "requests.get")) = 2
        /\ result[i] = [error |-> "Could not geolocate IP 9.9.9.9."]

\* C5: when a supplied ip fails geolocation and the fallback discovery and
\* geolocation both succeed, the weather is looked up at the coordinates of
\* the discovered IP, and a success record carries the discovered IP and
\* the lat, lng and location of its geolocation.
C5_FallbackAdoptsDiscoveredIp ==
    \A i \in Invocations :
        (SuppliedIpFailed(i) /\ Len(CallsTo(i, "geocoder.ip")) = 2
            /\ ~GeoFails(CallsTo(i, "geocoder.ip")[2].resp)) =>
            LET gets == CallsTo(i, "requests.get")
                g2 == CallsTo(i, "geocoder.ip")[2]
            IN /\ Len(CallsTo(i, "_fetch_precip_prob")) = 1
               /\ LastCall(i).fn = "_fetch_precip_prob"
               /\ <<LastCall(i).lat, LastCall(i).lng>> = g2.resp.latlng
               /\ g2.ip = strip(gets[Len(gets)].resp.text)
               /\ Success(i) =>
                      /\ result[i].ip = g2.ip
                      /\ result[i].ip # strip(args[i].ip)
                      /\ <<result[i].lat, result[i].lng>> = g2.resp.latlng
                      /\ result[i].location =
                             IF g2.resp.city \in {<<>>, <<"">>} THEN DefaultCity ELSE g2.resp.city[1]

C5_Witness ==
    \E i \in Invocations :
        /\ SuppliedIpFailed(i) /\ Success(i)
        /\ args[i].ip = "5.6.7.8"
        /\ calls[i][1].resp.latlng = <<10, 20>>
        /\ result[i].ip = "9.9.9.9" /\ result[i].lat = 30 /\ result[i].lng = 40
        /\ result[i].location = "Testville"

\* C6: a success record has the hour_sample key exactly when the weather
\* fetch returned at least one timestamp; the value is then that non-empty
\* sequence.
C6_HourSampleIffTimestamps ==
    \A i \in Invocations :
        Success(i) =>
            /\ ("hour_sample" \in DOMAIN result[i]) <=> (Len(Fetched(i).times) >= 1)
            /\ "hour_sample" \in DOMAIN result[i] =>
                   result[i].hour_sample = Fetched(i).times /\ result[i].hour_sample # <<>>

C6_Witness ==
    \E i \in Invocations :
        /\ Success(i)
        /\ "hour_sample" \in DOMAIN result[i]
        /\ result[i].hour_sample = Hours(2)

C6_WitnessAbsent ==
    \E i \in Invocations :
        Success(i) /\ "hour_sample" \notin DOMAIN result[i] /\ LastCall(i).resp.data.hourly.time = JList(<<>>)

SuccessFields ==
    {"ip", "location", "lat", "lng", "rain", "precipitation_chance", "threshold", "message"}

\* C7: a returned record is a success record (the eight success fields,
\* perhaps hour_sample, no error) or an error record (error alone); a
\* failure returns no success field.
C7_SuccessOrErrorNeverBoth ==
    \A i \in Invocations :
        Ended(i) =>
            /\ Done(i)
            /\ \/ DOMAIN result[i] = {"error"}
               \/ DOMAIN result[i] = SuccessFields
               \/ DOMAIN result[i] = SuccessFields \cup {"hour_sample"}

C7_Witness ==
    \E i \in Invocations :
        /\ Failure(i)
        /\ frame[Frame(i)].loc # <<>>
        /\ frame[Frame(i)].ip = "9.9.9.9"
        /\ DOMAIN result[i] = {"error"}

\* C8: whatever the discoverer, the geolocator and the weather fetcher do,
\* the invocation returns a record; no exception leaves check_for_rain.
C8_NoExceptionEscapes ==
    \A i \in Invocations :
        /\ pc[i] # "raised"
        /\ Done(i) => (result[i] # NoResult /\ "uncaught" \notin DOMAIN result[i])

C8_Witness ==
    \E i \in Invocations :
        /\ Failure(i)
        /\ LastCall(i).fn = "_fetch_precip_prob"
        /\ ~_fetch_precip_prob(LastCall(i).lat, LastCall(i).lng, LastCall(i).resp).ok
        /\ _fetch_precip_prob(LastCall(i).lat, LastCall(i).lng, LastCall(i).resp).exc.type = "TypeError"

\* C9: when every step succeeds, ip is the resolved IP (the trimmed ip of
\* the caller, or the discovered one for a blank ip), location, lat and lng
\* are those of its geolocation, precipitation_chance is the fetched
\* probability, threshold is the caller's, and message is "Yes, <p>% chance
\* of rain soon in <city>." when rain is true and "No, ..." when it is false.
C9_SuccessRecordFields ==
    \A i \in Invocations :
        (Success(i) /\ Len(CallsTo(i, "geocoder.ip")) = 1) =>
            LET gets == CallsTo(i, "requests.get")
                g == CallsTo(i, "geocoder.ip")[1]
                resolved == IF Blank(args[i].ip) THEN strip(gets[Len(gets)].resp.text)
                            ELSE strip(args[i].ip)
                city == IF g.resp.city \in {<<>>, <<"">>} THEN DefaultCity ELSE g.resp.city[1]
                p == Fetched(i).prob
            IN /\ Blank(args[i].ip) <=> gets # <<>>
               /\ g.ip = resolved
               /\ result[i].ip = resolved
               /\ result[i].location = city
               /\ <<result[i].lat, result[i].lng>> = g.resp.latlng
               /\ result[i].precipitation_chance = p
               /\ result[i].threshold = args[i].threshold
               /\ result[i].message = (IF result[i].rain THEN "Yes, " ELSE "No, ")
                      \o ToString(p) \o "% chance of rain soon in " \o city \o "."

C9_Witness ==
    \E i \in Invocations :
        /\ Success(i)
        /\ args[i] = [ip |-> " 5.6.7.8\t", threshold |-> 20]
        /\ Len(calls[i]) = 2
        /\ result[i] = [ip |-> "5.6.7.8", location |-> "Testville", lat |-> 10, lng |-> 20,
                        rain |-> TRUE, precipitation_chance |-> 21, threshold |-> 20,
                        message |-> "Yes, 21% chance of rain soon in Testville."]

(* ---------------- properties of concurrent invocations ---------------- *)

\* C10: invocations running at the same time do not interfere: under any
\* interleaving the record an invocation returns is the one it returns when
\* run alone with the same arguments and the same answers to its own
\* network calls.
C10_ConcurrentSameAsAlone ==
    \A i \in Invocations :
        Ended(i) => result[i] = check_for_rain(args[i].ip, args[i].threshold, calls[i])

C10_Witness ==
    \E i, j \in Invocations :
        /\ i # j
        /\ overlapped[i] /\ overlapped[j]
        /\ Success(i) /\ args[i].ip = "5.6.7.8" /\ result[i].ip = "5.6.7.8"
        /\ Failure(j) /\ args[j].ip = ""
        /\ result[j] = [error |-> "Could not geolocate IP 9.9.9.9."]

(* ---------------- order and number of the calls ---------------- *)

\* the component calls invocation i has made are within their limits
CallsBounded(i) ==
    LET gets == CallsTo(i, "requests.get")
        geos == CallsTo(i, "geocoder.ip")
    IN /\ Len(gets) <= Len(Endpoints)
       /\ \A k \in 1..Len(gets) : gets[k].url = Endpoints[k]
       /\ Len(geos) <= 2
       /\ Len(geos) = 2 => (~Blank(args[i].ip) /\ GeoFails(geos[1].resp))
       /\ Len(CallsTo(i, "_fetch_precip_prob")) <= 1
       /\ Ended(i) => LastCall(i).fn # "requests.get" \/ Len(gets) = Len(Endpoints)

\* C11: an invocation whose network calls all return or fail reaches a
\* terminal record; on the way the discoverer runs at most once (each
\* endpoint asked at most once), the geolocator at most twice, the second
\* time only in the fallback for a supplied ip, and the weather fetcher at
\* most once.
C11_BoundedCallsThenRecord ==
    /\ [](\A i \in Invocations : CallsBounded(i))
    /\ \A i \in Invocations : InFlight(i) ~> Done(i)

C11_Witness ==
    \E i \in Invocations :
        /\ Done(i)
        /\ Len(CallsTo(i, "requests.get")) = Len(Endpoints)
        /\ Len(CallsTo(i, "geocoder.ip")) = 2
        /\ Len(CallsTo(i, "_fetch_precip_prob")) = 1
        /\ Len(calls[i]) = Len(Endpoints) + 3

\* C12: the steps of an invocation come in the order IP resolution,
\* geolocation, weather lookup: a geolocation is of the ip resolved just
\* before it, the weather fetcher is called only straight after a
\* geolocation that succeeded, with that geolocation's coordinates, and it
\* is the last call; a discovery or geolocation error record comes with no
\* weather call.
C12_ResolveGeolocateThenWeather ==
    \A i \in Invocations :
        /\ \A k \in 1..Len(calls[i]) :
              LET c == calls[i][k]
              IN /\ c.fn = "geocoder.ip" =>
                      IF k = 1 THEN ~Blank(args[i].ip) /\ c.ip = strip(args[i].ip)
                      ELSE /\ calls[i][k - 1].fn = "requests.get"
                           /\ ~EndpointFails(calls[i][k - 1].resp)
                           /\ c.ip = strip(calls[i][k - 1].resp.text)
                 /\ c.fn = "_fetch_precip_prob" =>
                      /\ k = Len(calls[i]) /\ k > 1 /\ Ended(i)
                      /\ calls[i][k - 1].fn = "geocoder.ip"
                      /\ ~GeoFails(calls[i][k - 1].resp)
                      /\ <<c.lat, c.lng>> = calls[i][k - 1].resp.latlng
        /\ (Ended(i) /\ LastCall(i).fn # "_fetch_precip_prob") =>
               (Failure(i) /\ CallsTo(i, "_fetch_precip_prob") = <<>>)

C12_Witness ==
    \E i \in Invocations :
        /\ Success(i)
        /\ Len(CallsTo(i, "geocoder.ip")) = 2
        /\ CallsTo(i, "geocoder.ip")[1].resp.latlng = <<10, 20>>
        /\ <<LastCall(i).lat, LastCall(i).lng>> = <<30, 40>>

C12_WitnessNoWeather ==
    \E i \in Invocations :
        /\ Failure(i)
        /\ Len(CallsTo(i, "geocoder.ip")) = 2
        /\ CallsTo(i, "_fetch_precip_prob") = <<>>

\* the record of an invocation whose discovery found no IP
DiscoveryFailureRecord(i) ==
    IF Blank(args[i].ip)
    THEN [error |-> "Could not determine public IP: " \o DiscoveryFailed.msg]
    ELSE [error |-> FirstGeoMsg(i) \o "; fallback to public IP failed: " \o DiscoveryFailed.msg]

\* C13: _get_public_ip asks its three endpoints in their fixed order, each
\* at most once, and asks the next one only after a network error or an
\* empty (after trimming) text; it returns the trimmed text of the first
\* endpoint that answers with a non-empty one and asks no endpoint after
\* it; it fails exactly when all three fail or answer empty text.
C13_EndpointsInOrderFirstAnswerWins ==
    \A i \in Invocations :
        LET gets == CallsTo(i, "requests.get")
            n == Len(gets)
            f == frame[Frame(i)]
            discovering == pc[i] \in {"discover", "fb_discover"}
        IN /\ n <= Len(Endpoints)
           /\ \A k \in 1..n : gets[k].url = Endpoints[k]
           /\ \A k \in 1..(n - 1) : EndpointFails(gets[k].resp)
           /\ discovering =>
                  /\ \A k \in 1..n : EndpointFails(gets[k].resp)
                  /\ n < Len(Endpoints)
                  /\ f.url = n + 1
           /\ (~discovering /\ n > 0) =>
                  IF EndpointFails(gets[n].resp)
                  THEN n = Len(Endpoints) /\ Done(i) /\ result[i] = DiscoveryFailureRecord(i)
                  ELSE /\ IF Blank(args[i].ip)
                          THEN IF pc[i] = "geolocate"
                               THEN f.ip = strip(gets[n].resp.text)
                               ELSE CallsTo(i, "geocoder.ip")[1].ip = strip(gets[n].resp.text)
                          ELSE f.auto_ip = strip(gets[n].resp.text)
                       /\ Ended(i) => result[i] # DiscoveryFailureRecord(i)

C13_Witness ==
    \E i \in Invocations :
        /\ pc[i] = "geolocate"
        /\ Len(calls[i]) = 2
        /\ calls[i][1].resp = Text("\n")
        /\ calls[i][2].resp = Text("9.9.9.9\n")
        /\ frame[Frame(i)].ip = "9.9.9.9"

C13_WitnessAllFail ==
    \E i \in Invocations :
        /\ Done(i) /\ ~Blank(args[i].ip)
        /\ Len(CallsTo(i, "requests.get")) = Len(Endpoints)
        /\ result[i] = DiscoveryFailureRecord(i)

(* ---------------- the weather lookup ---------------- *)

WeatherCalled(i) == Ended(i) /\ LastCall(i).fn = "_fetch_precip_prob"

\* what the fetch of the weather call did
FetchOutcome(i) == _fetch_precip_prob(LastCall(i).lat, LastCall(i).lng, LastCall(i).resp)

HasPrefix(str, prefix) == Len(str) >= Len(prefix) /\ SubSeq(str, 1, Len(prefix)) = prefix

FetchPrefix == "Failed to fetch weather data: "

\* the message of a failed lookup: prefixed for a RequestException, bare otherwise
ClassifiedMessage(i) ==
    /\ ~FetchOutcome(i).ok =>
           /\ Failure(i)
           /\ result[i] = [error |-> IF "RequestException" \in Ancestors(FetchOutcome(i).exc.type)
                                     THEN FetchPrefix \o FetchOutcome(i).exc.msg
                                     ELSE FetchOutcome(i).exc.msg]
    /\ LastCall(i).resp.kind = "raise" =>
           result[i] = [error |-> FetchPrefix \o LastCall(i).resp.exc.msg]

C14_WitnessBare ==
    \E i \in Invocations :
        /\ WeatherCalled(i)
        /\ result[i] = [error |-> "Weather data missing precipitation probabilities."]

\* the weather call got a response with a body whose hourly part, if
\* there, is an object
BodyRead(i) ==
    /\ WeatherCalled(i)
    /\ LastCall(i).resp.kind = "response"
    /\ LastCall(i).resp.status \notin 400..599
    /\ LastCall(i).resp.data.hourly.t \in {"absent", "object"}

\* the precipitation_probability entry of that body
ProbsOf(i) ==
    IF LastCall(i).resp.data.hourly.t = "absent" THEN Absent
    ELSE LastCall(i).resp.data.hourly.precipitation_probability

ProbsAbsentOrEmpty(i) == ProbsOf(i).t \in {"absent", "null"} \/ ProbsOf(i) = JList(<<>>)

IsNumber(j) == j.t \in {"int", "float"}

\* the integer part of a JSON number
IntegerPart(j) == IF j.t = "int" THEN j.v ELSE j.whole

C15_WitnessZero ==
    \E i \in Invocations :
        /\ BodyRead(i)
        /\ ProbsOf(i) = JList(<<JInt(0)>>)
        /\ Success(i) /\ result[i].precipitation_chance = 0

C15_WitnessMissing ==
    \E i \in Invocations :
        /\ BodyRead(i)
        /\ LastCall(i).resp.data.hourly.t = "absent"
        /\ result[i] = [error |-> "Weather data missing precipitation probabilities."]

\* the time entry of the body
TimesOf(i) ==
    IF LastCall(i).resp.data.hourly.t = "absent" THEN Absent
    ELSE LastCall(i).resp.data.hourly.time

\* the first min(SampleLen, n) of the n timestamps of the body, in order
ExpectedSample(i) ==
    IF TimesOf(i).t # "list" THEN <<>>
    ELSE LET n == Len(TimesOf(i).v)
         IN [k \in 1..(IF n < SampleLen THEN n ELSE SampleLen) |-> TimesOf(i).v[k]]

\* C16: the timestamp sample is the first min(3, n) of the n entries of
\* the hourly time sequence, in order, and empty when the sequence is
\* absent; whether the fetch fails does not depend on the time sequence.
C16_SampleIsPrefixOfThree ==
    \A i \in Invocations :
        BodyRead(i) =>
            /\ FetchOutcome(i).ok <=> (~ProbsAbsentOrEmpty(i) /\ IsNumber(ProbsOf(i).v[1]))
            /\ FetchOutcome(i).ok =>
                   /\ FetchOutcome(i).val.times = ExpectedSample(i)
                   /\ Len(FetchOutcome(i).val.times) <= 3
                   /\ Success(i)
                   /\ IF ExpectedSample(i) = <<>> THEN "hour_sample" \notin DOMAIN result[i]
                      ELSE result[i].hour_sample = ExpectedSample(i)

C16_Witness ==
    \E i \in Invocations :
        /\ BodyRead(i) /\ Success(i)
        /\ TimesOf(i) = JList(Hours(MaxTimes))
        /\ result[i].hour_sample = <<"2025-01-01T00:00", "2025-01-01T01:00", "2025-01-01T02:00">>

C16_WitnessAbsent ==
    \E i \in Invocations :
        /\ BodyRead(i) /\ Success(i)
        /\ TimesOf(i) = Absent
        /\ "hour_sample" \notin DOMAIN result[i]

(* ---------------- geolocation ---------------- *)

\* the k-th call of invocation i, a geolocation, succeeded: the weather
\* lookup is what comes next
GeoSucceeded(i, k) ==
    IF k = Len(calls[i]) THEN pc[i] = "weather"
    ELSE calls[i][k + 1].fn = "_fetch_precip_prob"

GeoCalls(i) == {k \in 1..Len(calls[i]) : calls[i][k].fn = "geocoder.ip"}

FirstGeoCall(i, k) == \A j \in GeoCalls(i) : j >= k

NamesIp(ip) == "Could not geolocate IP " \o ip \o "."

\* C17: a geolocation succeeds exactly when the provider reports ok and a
\* latitude/longitude pair; otherwise it fails with an error that names the
\* IP being geolocated, the caller's on the first attempt and the
\* discovered one in the fallback.
C17_GeolocationOkAndCoordinates ==
    \A i \in Invocations :
        \A k \in GeoCalls(i) :
            LET c == calls[i][k]
                f == frame[Frame(i)]
            IN /\ GeoSucceeded(i, k) <=> (c.resp.ok /\ c.resp.latlng # <<>>)
               /\ ~GeoSucceeded(i, k) =>
                      IF FirstGeoCall(i, k)
                      THEN /\ f.first_err = <<Exc("RuntimeError", NamesIp(c.ip))>>
                           /\ ~Blank(args[i].ip) => c.ip = strip(args[i].ip)
                           /\ Blank(args[i].ip) => c.ip = strip(calls[i][k - 1].resp.text)
                           /\ (Ended(i) /\ Blank(args[i].ip)) => result[i] = [error |-> NamesIp(c.ip)]
                      ELSE /\ c.ip = f.auto_ip
                           /\ c.ip = strip(calls[i][k - 1].resp.text)
                           /\ Done(i)
                           /\ result[i] = [error |-> NamesIp(f.ip)
                                  \o "; fallback to public IP failed: " \o NamesIp(c.ip)]

C17_Witness ==
    \E i \in Invocations :
        /\ Done(i)
        /\ Cardinality(GeoCalls(i)) = 2
        /\ calls[i][1].resp = [ok |-> FALSE, latlng |-> <<10, 20>>, city |-> <<"Testville">>]
        /\ LastCall(i).resp = [ok |-> TRUE, latlng |-> <<>>, city |-> <<"Testville">>]
        /\ result[i] = [error |-> "Could not geolocate IP 5.6.7.8.; fallback to public IP failed: Could not geolocate IP 9.9.9.9."]

C17_WitnessSucceeds ==
    \E i \in Invocations :
        \E k \in GeoCalls(i) :
            GeoSucceeded(i, k) /\ calls[i][k].resp.ok /\ calls[i][k].resp.latlng = <<30, 40>>

CityOmitted(g) == g.city = <<>> \/ g.city = <<"">>

\* C18: when the provider reports ok and coordinates but no city, the
\* geolocation still succeeds, the weather lookup follows, and a success
\* record has location "your area"; a missing city gives no error record.
C18_MissingCityIsYourArea ==
    \A i \in Invocations :
        \A k \in GeoCalls(i) :
            LET c == calls[i][k]
            IN (c.resp.ok /\ c.resp.latlng # <<>> /\ CityOmitted(c.resp)) =>
                   /\ GeoSucceeded(i, k)
                   /\ frame[Frame(i)].loc = <<[lat |-> c.resp.latlng[1], lng |-> c.resp.latlng[2],
                                               city |-> "your area"]>>
                   /\ Ended(i) =>
                          /\ WeatherCalled(i)
                          /\ FetchOutcome(i).ok <=> Success(i)
                          /\ Success(i) => result[i].location = "your area"

C18_Witness ==
    \E i \in Invocations :
        /\ Success(i)
        /\ Cardinality(GeoCalls(i)) = 1
        /\ calls[i][Len(calls[i]) - 1].resp = [ok |-> TRUE, latlng |-> <<10, 20>>, city |-> <<>>]
        /\ result[i].location = "your area"
        /\ result[i].message = "No, 20% chance of rain soon in your area."

(* ---------------- the ip argument ---------------- *)

DiscoveryCalls(i) == {k \in 1..Len(calls[i]) : calls[i][k].fn = "requests.get"}

\* C19: ip is trimmed before use. A blank ip (absent, empty or only
\* whitespace) has IP discovery run before any geolocation and is then
\* handled as auto-detected: one geolocation, and its failure ends the run
\* with no fallback. A non-blank ip is geolocated first, in its trimmed
\* form, and IP discovery runs only after that geolocation failed.
C19_IpTrimmedBlankMeansDiscovery ==
    \A i \in Invocations :
        (pc[i] # "idle" /\ calls[i] # <<>>) =>
            IF Blank(args[i].ip)
            THEN /\ calls[i][1].fn = "requests.get"
                 /\ frame[Frame(i)].tried_autodetect
                 /\ Cardinality(GeoCalls(i)) <= 1
                 /\ \A k \in GeoCalls(i) :
                        /\ \A j \in 1..(k - 1) : j \in DiscoveryCalls(i)
                        /\ \A j \in DiscoveryCalls(i) : j < k
                        /\ GeoFails(calls[i][k].resp) =>
                               /\ k = Len(calls[i])
                               /\ result[i] = [error |-> NamesIp(calls[i][k].ip)]
            ELSE /\ calls[i][1].fn = "geocoder.ip"
                 /\ calls[i][1].ip = strip(args[i].ip)
                 /\ Blank(calls[i][1].ip) = FALSE
                 /\ DiscoveryCalls(i) # {} => GeoFails(calls[i][1].resp)
                 /\ (~GeoFails(calls[i][1].resp) /\ Len(calls[i]) > 1) =>
                        calls[i][2].fn = "_fetch_precip_prob"

C19_Witness ==
    \E i \in Invocations :
        /\ args[i].ip = " \n"
        /\ Done(i)
        /\ Len(calls[i]) = 2
        /\ calls[i][1].fn = "requests.get"
        /\ calls[i][2].fn = "geocoder.ip"
        /\ GeoFails(calls[i][2].resp)
        /\ result[i] = [error |-> "Could not geolocate IP 9.9.9.9."]

C19_WitnessTrimmed ==
    \E i \in Invocations :
        /\ args[i].ip = " 5.6.7.8\t"
        /\ Success(i)
        /\ Len(calls[i]) = 2
        /\ calls[i][1].fn = "geocoder.ip"
        /\ calls[i][1].ip = "5.6.7.8"
        /\ result[i].ip = "5.6.7.8"

C19_WitnessAbsent ==
    \E i \in Invocations :
        args[i].ip = "" /\ Success(i) /\ calls[i][1].fn = "requests.get"

(* ---------------- the range of the probability ---------------- *)

Percent == 0..100

\* C20: the probability of every weather sample, and so the
\* precipitation_chance of every success record, is an integer from 0 to
\* 100 inclusive.
C20_ProbabilityIsAPercentage ==
    \A i \in Invocations :
        /\ (WeatherCalled(i) /\ FetchOutcome(i).ok) => FetchOutcome(i).val.prob \in Percent
        /\ Success(i) => result[i].precipitation_chance \in Percent

====
